---- MODULE Spec2Model ----
(***************************************************************************)
(* Model of the comment-block extractor in src/src/parse.rs: the per-line  *)
(* parser state machine, the block store (comment_history), the sequence   *)
(* extraction and the finalization pass writing the store to the           *)
(* filesystem.  Strings are sequences of one-character strings.            *)
(***************************************************************************)
EXTENDS Integers, Sequences, FiniteSets, TLC

\* ------------------------------------------------------------------ bounds
\* total number of lines read from all files of one run
MaxLines == 4
\* number of eligible files the tree walk yields
MaxFiles == 2
\* length of the names enumerated for sequence extraction
MaxNameLen == 6
\* number of digits of the bracketed numbers enumerated around the u16 limit
MaxDigits == 5

\* --------------------------------------------------------------- constants
\* largest value of the u16 the sequence number is parsed into
U16Max == 65535

\* ----------------------------------------------------------------- strings
SeqsUpTo(S, n) == UNION {[1..k -> S] : k \in 0..n}

Digits == {"0", "1", "2", "3", "4", "5", "6", "7", "8", "9"}

DigitVal(c) ==
  CASE c = "0" -> 0 [] c = "1" -> 1 [] c = "2" -> 2 [] c = "3" -> 3
    [] c = "4" -> 4 [] c = "5" -> 5 [] c = "6" -> 6 [] c = "7" -> 7
    [] c = "8" -> 8 [] c = "9" -> 9

\* decimal value of a run of digits (leading zeros allowed)
RECURSIVE DecValue(_)
DecValue(ds) ==
  IF ds = <<>> THEN 0
  ELSE 10 * DecValue(SubSeq(ds, 1, Len(ds) - 1)) + DigitVal(ds[Len(ds)])

IsSpace(c) == c \in {" ", "\t"}

RECURSIVE TrimStart(_)
TrimStart(s) ==
  IF s # <<>> /\ IsSpace(s[1]) THEN TrimStart(Tail(s)) ELSE s

RECURSIVE TrimEnd(_)
TrimEnd(s) ==
  IF s # <<>> /\ IsSpace(s[Len(s)]) THEN TrimEnd(SubSeq(s, 1, Len(s) - 1)) ELSE s

\* str::trim
Trim(s) == TrimEnd(TrimStart(s))

\* str::starts_with
StartsWith(s, p) == Len(p) <= Len(s) /\ SubSeq(s, 1, Len(p)) = p

\* str::split on a one-character separator: always at least one piece
RECURSIVE Split(_, _)
Split(s, sep) ==
  IF \A i \in 1..Len(s) : s[i] # sep THEN <<s>>
  ELSE LET i == CHOOSE j \in 1..Len(s) :
                  s[j] = sep /\ \A h \in 1..(j - 1) : s[h] # sep
       IN  <<SubSeq(s, 1, i - 1)>> \o Split(SubSeq(s, i + 1, Len(s)), sep)

\* [&str]::join with a one-character separator
RECURSIVE Join(_, _)
Join(parts, sep) ==
  IF parts = <<>> THEN <<>>
  ELSE IF Len(parts) = 1 THEN parts[1]
  ELSE parts[1] \o <<sep>> \o Join(Tail(parts), sep)

\* ------------------------------------------------------ sequence extraction
\* a parse into u16 that keeps the low 16 bits of a larger value
ParseU16Wrapping(ds) ==
  [ok |-> TRUE, num |-> DecValue(ds) % (U16Max + 1)]

\* str::parse::<u16> of a non-empty run of ASCII digits
ParseU16(ds) ==
  IF DecValue(ds) <= U16Max THEN [ok |-> TRUE, num |-> DecValue(ds)]
  ELSE [ok |-> FALSE, num |-> -1]

\* the matches of the regex \[\d*\]$, which accepts empty brackets
VersionMatchesEmptyDigits(a_string) ==
  {i \in 1..Len(a_string) :
     /\ a_string[i] = "["
     /\ a_string[Len(a_string)] = "]"
     /\ Len(a_string) - i >= 1
     /\ \A j \in (i + 1)..(Len(a_string) - 1) : a_string[j] \in Digits}

\* start positions of the matches of the regex \[\d+\]$ in a_string
VersionMatches(a_string) ==
  {i \in 1..Len(a_string) :
     /\ a_string[i] = "["
     /\ a_string[Len(a_string)] = "]"
     /\ Len(a_string) - i >= 2
     /\ \A j \in (i + 1)..(Len(a_string) - 1) : a_string[j] \in Digits}

Min(S) == CHOOSE x \in S : \A y \in S : x <= y

\* strip_number_in_str that also trims the name it returns
strip_number_in_str_trimmed(a_string) ==
  LET ms == VersionMatches(a_string) IN
  IF ms = {} THEN [ok |-> FALSE, num |-> -1, name |-> <<>>]
  ELSE LET i == Min(ms)
           parsed == ParseU16(SubSeq(a_string, i + 1, Len(a_string) - 1))
       IN  IF ~parsed.ok THEN [ok |-> FALSE, num |-> -1, name |-> <<>>]
           ELSE [ok |-> TRUE, num |-> parsed.num,
                 name |-> Trim(SubSeq(a_string, 1, i - 1))]

\* strip_number_in_str: (sequence number, name without the suffix) or an error
strip_number_in_str(a_string) ==
  LET ms == VersionMatches(a_string) IN
  IF ms = {} THEN [ok |-> FALSE, num |-> -1, name |-> <<>>]
  ELSE LET i == Min(ms)
           parsed == ParseU16(SubSeq(a_string, i + 1, Len(a_string) - 1))
       IN  IF ~parsed.ok THEN [ok |-> FALSE, num |-> -1, name |-> <<>>]
           ELSE [ok |-> TRUE, num |-> parsed.num,
                 name |-> SubSeq(a_string, 1, i - 1)]

\* ------------------------------------------------------------------ inputs
\* comment_in_files arguments: doc_root, start, folder_prefixes (dot-delimited)
DocRoot == <<"d">>
StartOfComment == <<"#">>
FolderPrefixArg == <<"E">>

\* the lines a scanned file may hold: a code line, and comment lines whose
\* text is a well-formed name, a second version of it, a name without a
\* sequence suffix, and two versions of a name whose segment does not start
\* with the declared prefix
CodeLine == <<"c">>
LineE1 == <<"#", "E", "[", "1", "]">>
LineE2 == <<"#", "E", "[", "2", "]">>
LineE == <<"#", "E">>
LineX1 == <<"#", "X", "[", "1", "]">>
LineX2 == <<"#", "X", "[", "2", "]">>
InputLines == {CodeLine, LineE1, LineE2, LineE, LineX1, LineX2}

\* an output file left by an earlier run under the document root
StalePath == <<"d", "/", "E", ".", "m", "d">>
StaleLine == <<"o", "l", "d">>
StaleFiles == [p \in {StalePath} |-> <<StaleLine, <<>>>>]
StaleDirs == {DocRoot}

VARIABLES
  pc,                   \* position in comment_in_files
  file_idx,             \* number of eligible walk entries taken so far
  lines_read,           \* lines read in the run so far (bounded by MaxLines),
                        \* the leading code lines of InitLong not counted
  folder_prefixes,      \* Comments.folder_prefixes
  current_state,        \* Comments.current_state
  comment_history,      \* Comments.comment_history: key -> (u16 -> lines)
  comment,              \* Comments.comment
  comment_block_names,  \* Comments.comment_block_names
  current_comment_name, \* Comments.current_comment_name
  line_counter,         \* Comments.line_counter
  comment_line_start,   \* Comments.comment_line_start
  fs_files,             \* the filesystem: path -> lines of the file
  fs_dirs,              \* the filesystem: directories
  console,              \* kinds of messages printed so far
  pending,              \* write_history: keys of the map not yet iterated
  cur_key,              \* write_history: key being iterated
  cur_rest,             \* write_history: sequence numbers of cur_key left
  error_string,         \* write_history: error_string
  comment_file,         \* history: file the open block's name was read in
  closed,               \* history: every block close with a non-empty body
  io_failed,            \* history: (key, version) writes that hit an I/O error,
                        \*          returned or discarded
  written,              \* history: paths appended to by this run
  passes,               \* history: number of write_history calls
  line_no,              \* history: 1-based number, in its file, of the next line
  name_line,            \* history: line_no of the open block's metadata line
  run,                  \* history: the comment lines read in the current file
                        \*          since its last non-comment line
  a_string,             \* argument of a stand-alone strip_number_in_str call
  strip_out,            \* its result
  path_arg,             \* argument of a stand-alone is_valid_folder_path call
  valid_out             \* its result

parser == <<folder_prefixes, current_state, comment_history, comment,
            comment_block_names, current_comment_name, line_counter,
            comment_line_start>>
fs == <<fs_files, fs_dirs>>
hist == <<pending, cur_key, cur_rest, error_string>>
strip == <<a_string, strip_out, path_arg, valid_out>>
ghost == <<comment_file, closed, io_failed, written, passes, line_no,
           name_line, run>>
vars == <<pc, file_idx, lines_read, parser, fs, console, hist, ghost, strip>>

NoFunction == [x \in {} |-> 0]

\* ------------------------------------------------------------ block store
\* the synthetic first line of a stored block: source file and start line
Header(file_name, start) ==
  <<"[SOURCE FILE:](file:///", file_name, ") LINE: ", start, "\n">>

\* BTreeMap::insert under HashMap::entry(key).or_insert_with: the value
\* stored under (key, num) becomes lines, whether or not one was there
InsertVersion(history, key, num, lines) ==
  LET inner == IF key \in DOMAIN history THEN history[key] ELSE NoFunction
  IN  [k \in DOMAIN history \cup {key} |->
         IF k = key
         THEN [n \in DOMAIN inner \cup {num} |->
                 IF n = num THEN lines ELSE inner[n]]
         ELSE history[k]]

\* what BTreeMap::insert returns is Some(old): the key was present
HasVersion(history, key, num) ==
  key \in DOMAIN history /\ num \in DOMAIN history[key]

\* a write_out_all_history that also processes a block without body lines
write_out_all_history_any_body(file_name) ==
  LET all_block_lines ==
        <<Header(file_name, comment_line_start)>> \o comment
      comment_name == strip_number_in_str(current_comment_name)
      key == DocRoot \o <<".">> \o comment_name.name
  IN  IF ~comment_name.ok
      THEN [res |-> "missing", history |-> comment_history,
            names |-> comment_block_names]
      ELSE IF HasVersion(comment_history, key, comment_name.num)
      THEN [res |-> "dup",
            history |-> InsertVersion(comment_history, key,
                                      comment_name.num, all_block_lines),
            names |-> comment_block_names]
      ELSE [res |-> "ok",
            history |-> InsertVersion(comment_history, key,
                                      comment_name.num, all_block_lines),
            names |-> comment_block_names \cup {current_comment_name}]

\* write_out_all_history: the block being closed goes to the store.
\* res is "ok", or the error returned: "missing" (no sequence number in
\* the name) or "dup" (duplicate sequence number)
write_out_all_history(file_name) ==
  IF Len(comment) = 0
  THEN [res |-> "ok", history |-> comment_history,
        names |-> comment_block_names]
  ELSE LET all_block_lines ==
             <<Header(file_name, comment_line_start)>> \o comment
           comment_name == strip_number_in_str(current_comment_name)
           key == DocRoot \o <<".">> \o comment_name.name
       IN  IF ~comment_name.ok
           THEN [res |-> "missing", history |-> comment_history,
                 names |-> comment_block_names]
           ELSE IF HasVersion(comment_history, key, comment_name.num)
           THEN [res |-> "dup",
                 history |-> InsertVersion(comment_history, key,
                                           comment_name.num, all_block_lines),
                 names |-> comment_block_names]
           ELSE [res |-> "ok",
                 history |-> InsertVersion(comment_history, key,
                                           comment_name.num, all_block_lines),
                 names |-> comment_block_names \cup {current_comment_name}]

\* ----------------------------------------------------------- path validator
\* a validator that tests the registered names before the depth
is_valid_folder_path_names_first(names, prefixes, file_path_and_name) ==
  LET path == Split(file_path_and_name, ".") IN
  IF file_path_and_name \in names
  THEN <<"Comment block name must be unique in code base.">>
  ELSE IF Len(path) > Len(prefixes) + 1
  THEN <<"Path is longer than what is allowed.">>
  ELSE LET bad == {k \in 1..(Len(path) - 1) :
                     ~StartsWith(path[k + 1], prefixes[k])}
       IN  IF bad = {} THEN <<"ok">>
           ELSE <<"Invalid folder prefix", path[Min(bad) + 1],
                  prefixes[Min(bad)]>>

\* is_valid_folder_path: <<"ok">> or the error message
is_valid_folder_path(names, prefixes, file_path_and_name) ==
  LET path == Split(file_path_and_name, ".") IN
  IF path = <<>>
  THEN <<"There is no file path in the first line of the comment block.">>
  ELSE IF Len(path) > Len(prefixes) + 1
  THEN <<"Path is longer than what is allowed.">>
  ELSE IF file_path_and_name \in names
  THEN <<"Comment block name must be unique in code base.">>
  ELSE LET n == IF Len(path) - 1 < Len(prefixes)
                THEN Len(path) - 1 ELSE Len(prefixes)
           bad == {k \in 1..n : ~StartsWith(path[k + 1], prefixes[k])}
       IN  IF bad = {} THEN <<"ok">>
           ELSE <<"Invalid folder prefix", path[Min(bad) + 1],
                  prefixes[Min(bad)]>>

\* ------------------------------------------------------------------ writer
\* writeln!(writer, "{}", line): the lines the file gains
WriteLn(line) ==
  IF line # <<>> /\ line[Len(line)] = "\n"
  THEN <<SubSeq(line, 1, Len(line) - 1), <<>>>>
  ELSE <<line>>

RECURSIVE WriteLines(_)
WriteLines(lines) ==
  IF lines = <<>> THEN <<>>
  ELSE WriteLn(Head(lines)) \o WriteLines(Tail(lines))

\* a write that ends without the blank line
RenderedNoSeparator(lines) == WriteLines(lines)

\* what one write_out_to_file call appends: the lines, then a blank line
Rendered(lines) == WriteLines(lines) \o << <<>> >>

\* create_dir_all(path.join("/")) for the path without its last segment
OutDirs(file_path_and_name) ==
  LET path == Split(file_path_and_name, ".")
      dirs == SubSeq(path, 1, Len(path) - 1)
  IN  {Join(SubSeq(dirs, 1, k), "/") : k \in 1..Len(dirs)}

\* an output file named by the whole dotted path, without nesting
OutFileFlat(file_path_and_name) == file_path_and_name \o <<".", "m", "d">>

\* format!("{}.md", path.join("/"))
OutFile(file_path_and_name) ==
  Join(Split(file_path_and_name, "."), "/") \o <<".", "m", "d">>

\* OpenOptions::new().append(true).create(true), then the writes
AppendFile(files, p, lines) ==
  [q \in DOMAIN files \cup {p} |->
     IF q = p
     THEN (IF p \in DOMAIN files THEN files[p] ELSE <<>>) \o lines
     ELSE files[q]]

Max(S) == CHOOSE x \in S : \A y \in S : x >= y

\* an inner loop that takes the versions in descending order
NextVersionDescending(versions) == Max(versions)

\* the version of the key write_history's inner loop takes next:
\* BTreeMap iteration is ascending
NextVersion(versions) == Min(versions)

\* u16 += 1
IncU16(x) == (x + 1) % (U16Max + 1)

\* ----------------------------------------------------------------- actions
\* Comments::default(), before comment_in_files; the document root is absent
\* or holds the output of an earlier run
InitRun ==
  /\ pc = "start"
  /\ file_idx = 0
  /\ lines_read = 0
  /\ folder_prefixes = <<>>
  /\ current_state = "CODE"
  /\ comment_history = NoFunction
  /\ comment = <<>>
  /\ comment_block_names = {}
  /\ current_comment_name = <<>>
  /\ line_counter = 0
  /\ comment_line_start = 0
  /\ \E stale \in BOOLEAN :
       /\ fs_files = IF stale THEN StaleFiles ELSE NoFunction
       /\ fs_dirs = IF stale THEN StaleDirs ELSE {}
  /\ console = {}
  /\ pending = {}
  /\ cur_key = <<>>
  /\ cur_rest = {}
  /\ error_string = <<>>
  /\ comment_file = 0
  /\ closed = <<>>
  /\ io_failed = {}
  /\ written = {}
  /\ passes = 0
  /\ line_no = 0
  /\ name_line = 0
  /\ run = <<>>

Init ==
  /\ InitRun
  /\ a_string = <<>>
  /\ strip_out = <<>>
  /\ path_arg = <<>>
  /\ valid_out = <<>>

UnderRoot(p, root) == p = root \/ StartsWith(p, root \o <<"/">>)

\* comment_in_files, lines 561-563: remove_dir_all(doc_root) with its result
\* dropped, then the parser is set to CODE
RemoveDirAll ==
  /\ pc = "start"
  /\ \E removed \in BOOLEAN :
       IF removed
       THEN /\ fs_files' = [p \in {q \in DOMAIN fs_files :
                                     ~UnderRoot(q, DocRoot)} |-> fs_files[p]]
            /\ fs_dirs' = {q \in fs_dirs : ~UnderRoot(q, DocRoot)}
       ELSE UNCHANGED fs
  /\ current_state' = "CODE"
  /\ pc' = "walk"
  /\ UNCHANGED <<file_idx, lines_read, folder_prefixes, comment_history,
                 comment, comment_block_names, current_comment_name,
                 line_counter, comment_line_start, console, hist, ghost,
                 strip>>

\* the walk yields an eligible file and File::open succeeds
OpenFile ==
  /\ pc = "walk"
  /\ file_idx < MaxFiles
  /\ file_idx' = file_idx + 1
  /\ line_counter' = 1
  /\ folder_prefixes' = Split(FolderPrefixArg, ".")
  /\ pc' = "scan"
  /\ line_no' = 1
  /\ run' = <<>>
  /\ UNCHANGED <<lines_read, current_state, comment_history, comment,
                 comment_block_names, current_comment_name,
                 comment_line_start, fs, console, hist, comment_file, closed,
                 io_failed, written, passes, name_line, strip>>

\* the walk yields an eligible file and File::open fails
OpenFail ==
  /\ pc = "walk"
  /\ file_idx < MaxFiles
  /\ file_idx' = file_idx + 1
  /\ line_counter' = 1
  /\ console' = console \cup {"open"}
  /\ line_no' = 1
  /\ run' = <<>>
  /\ UNCHANGED <<pc, lines_read, folder_prefixes, current_state,
                 comment_history, comment, comment_block_names,
                 current_comment_name, comment_line_start, fs, hist,
                 comment_file, closed, io_failed, written, passes, name_line,
                 strip>>

\* a parse_comment_start that refuses a name without a sequence number
parse_comment_start_strict(comment_name) ==
  IF strip_number_in_str(comment_name).ok THEN "Ok" ELSE "Err"

\* what parse_comment_start returns to parse_comment, and parse_comment to
\* parse_file, for a line read in CODE: Ok(()) whatever the name is
parse_comment_start(comment_name) == "Ok"

\* parse_file on a line that starts with the marker: parse_comment, and the
\* ERROR branch of lines 493-500 for an Err it returns
ReadCommentLine ==
  /\ pc = "scan"
  /\ lines_read < MaxLines
  /\ \E line \in InputLines :
       LET potential_comment_line == Trim(line)
           text == SubSeq(potential_comment_line, Len(StartOfComment) + 1,
                          Len(potential_comment_line))
       IN  /\ StartsWith(potential_comment_line, StartOfComment)
           /\ IF current_state = "CODE"
              THEN /\ current_state' =
                        IF parse_comment_start(Trim(text)) = "Ok"
                        THEN "COMMENT" ELSE "ERROR"
                   /\ console' =
                        IF parse_comment_start(Trim(text)) = "Ok"
                        THEN console ELSE console \cup {"parse file"}
                   /\ comment_line_start' = IncU16(line_counter)
                   /\ current_comment_name' = Trim(text)
                   /\ comment_file' = file_idx
                   /\ name_line' = line_no
                   /\ UNCHANGED comment
              ELSE /\ comment' = Append(comment, text)
                   /\ UNCHANGED <<current_state, comment_line_start,
                                  current_comment_name, comment_file,
                                  name_line, console>>
           /\ run' = Append(run, line)
  /\ line_counter' = IncU16(line_counter)
  /\ line_no' = line_no + 1
  /\ lines_read' = lines_read + 1
  /\ UNCHANGED <<pc, file_idx, folder_prefixes, comment_history,
                 comment_block_names, fs, hist, closed, io_failed,
                 written, passes, strip>>

\* a close that returns its error before it resets the parser
CloseBlockErrorFirst(ends_file) ==
  LET r == write_out_all_history(file_idx) IN
  /\ comment_history' = r.history
  /\ comment_block_names' = r.names
  /\ closed' = IF Len(comment) = 0 THEN closed
               ELSE Append(closed,
                           [name |-> current_comment_name,
                            file |-> file_idx,
                            from |-> comment_file,
                            meta |-> name_line,
                            run |-> run,
                            eof |-> ends_file,
                            lines |-> <<Header(file_idx, comment_line_start)>>
                                      \o comment,
                            res |-> r.res])
  /\ IF r.res = "ok"
     THEN /\ current_state' = "CODE"
          /\ comment' = <<>>
          /\ pc' = IF ends_file THEN "walk" ELSE "scan"
          /\ line_counter' = IF ends_file THEN line_counter
                             ELSE IncU16(line_counter)
          /\ UNCHANGED console
     ELSE /\ pc' = "walk"
          /\ console' = console \cup {r.res}
          /\ UNCHANGED <<current_state, comment, line_counter>>

\* the effect of a write_out_all_history call on the parser and on what
\* parse_file does next: ends_file says that parse_file returns after it
CloseBlock(ends_file) ==
  LET r == write_out_all_history(file_idx) IN
  /\ current_state' = "CODE"
  /\ comment' = <<>>
  /\ comment_history' = r.history
  /\ comment_block_names' = r.names
  /\ closed' = IF Len(comment) = 0 THEN closed
               ELSE Append(closed,
                           [name |-> current_comment_name,
                            file |-> file_idx,
                            from |-> comment_file,
                            meta |-> name_line,
                            run |-> run,
                            eof |-> ends_file,
                            lines |-> <<Header(file_idx, comment_line_start)>>
                                      \o comment,
                            res |-> r.res])
  /\ IF r.res = "ok"
     THEN /\ pc' = IF ends_file THEN "walk" ELSE "scan"
          /\ line_counter' = IF ends_file THEN line_counter
                             ELSE IncU16(line_counter)
          /\ UNCHANGED console
     ELSE /\ pc' = "walk"
          /\ console' = console \cup {r.res}
          /\ UNCHANGED line_counter

\* parse_file on a line that does not start with the marker
ReadCodeLine ==
  /\ pc = "scan"
  /\ lines_read < MaxLines
  /\ \E line \in InputLines :
       ~StartsWith(Trim(line), StartOfComment)
  /\ IF current_state = "COMMENT"
     THEN CloseBlock(FALSE)
     ELSE /\ line_counter' = IncU16(line_counter)
          /\ UNCHANGED <<pc, current_state, comment, comment_history,
                         comment_block_names, closed, console>>
  /\ lines_read' = lines_read + 1
  /\ line_no' = line_no + 1
  /\ run' = <<>>
  /\ UNCHANGED <<file_idx, folder_prefixes, current_comment_name,
                 comment_line_start, fs, hist, comment_file, io_failed,
                 written, passes, name_line, strip>>

\* the end of a file in a streaming extractor: a block stored by the close is
\* written to its output file at once
EofStreaming ==
  /\ pc = "scan"
  /\ IF current_state = "COMMENT"
     THEN CloseBlock(TRUE)
     ELSE /\ pc' = "walk"
          /\ UNCHANGED <<current_state, comment, comment_history,
                         comment_block_names, closed, console, line_counter>>
  /\ IF /\ current_state = "COMMENT"
        /\ Len(comment) > 0
        /\ write_out_all_history(file_idx).res = "ok"
     THEN LET file_name ==
                Trim(DocRoot \o <<".">>
                     \o strip_number_in_str(current_comment_name).name)
          IN  /\ fs_dirs' = fs_dirs \cup OutDirs(file_name)
              /\ fs_files' = AppendFile(fs_files, OutFile(file_name),
                                        Rendered(<<Header(file_idx,
                                                          comment_line_start)>>
                                                 \o comment))
     ELSE UNCHANGED fs
  /\ run' = <<>>
  /\ UNCHANGED <<file_idx, lines_read, folder_prefixes, current_comment_name,
                 comment_line_start, hist, comment_file, io_failed,
                 written, passes, line_no, name_line, strip>>

\* an end of file that leaves an open block open
EofNoClose ==
  /\ pc = "scan"
  /\ pc' = "walk"
  /\ run' = <<>>
  /\ UNCHANGED <<file_idx, lines_read, parser, fs, console, hist, comment_file,
                 closed, io_failed, written, passes, line_no, name_line,
                 strip>>

\* parse_file, lines 508-511: the file has no more lines; comment_in_files,
\* lines 577-579: the report made when parse_file returns Ok in ERROR
Eof ==
  /\ pc = "scan"
  /\ IF current_state = "COMMENT"
     THEN CloseBlock(TRUE)
     ELSE /\ pc' = "walk"
          /\ console' = IF current_state = "ERROR"
                        THEN console \cup {"parsing"} ELSE console
          /\ UNCHANGED <<current_state, comment, comment_history,
                         comment_block_names, closed, line_counter>>
  /\ run' = <<>>
  /\ UNCHANGED <<file_idx, lines_read, folder_prefixes, current_comment_name,
                 comment_line_start, fs, hist, comment_file, io_failed,
                 written, passes, line_no, name_line, strip>>

\* parse_file, line 489: reading the next line fails
ReadError ==
  /\ pc = "scan"
  /\ pc' = "walk"
  /\ console' = console \cup {"read"}
  /\ UNCHANGED <<file_idx, lines_read, parser, fs, hist, ghost, strip>>

\* comment_in_files, line 586: the walk is over and write_history starts
WalkEnd ==
  /\ pc = "walk"
  /\ pc' = "final"
  /\ pending' = DOMAIN comment_history
  /\ cur_key' = <<>>
  /\ cur_rest' = {}
  /\ error_string' = <<>>
  /\ passes' = passes + 1
  /\ UNCHANGED <<file_idx, lines_read, parser, fs, console, comment_file,
                 closed, io_failed, written, line_no, name_line, run, strip>>

\* a write_out_to_file that creates the directories before it validates
WriteOutToFileDirsFirst ==
  /\ pc = "final"
  /\ \E key \in (IF cur_rest # {} THEN {cur_key} ELSE pending) :
       LET versions == IF cur_rest # {} THEN cur_rest
                       ELSE DOMAIN comment_history[key]
           num == NextVersion(versions)
           file_name == Trim(key)
           lines == comment_history[key][num]
           valid == is_valid_folder_path(comment_block_names,
                                         folder_prefixes, file_name)
       IN  /\ cur_key' = key
           /\ cur_rest' = versions \ {num}
           /\ pending' = pending \ {key}
           /\ fs_dirs' = fs_dirs \cup OutDirs(file_name)
           /\ IF valid # <<"ok">>
              THEN /\ error_string' = valid
                   /\ UNCHANGED <<fs_files, io_failed, written>>
              ELSE /\ fs_files' = AppendFile(fs_files, OutFile(file_name),
                                             Rendered(lines))
                   /\ written' = written \cup {OutFile(file_name)}
                   /\ UNCHANGED <<error_string, io_failed>>
  /\ UNCHANGED <<pc, file_idx, lines_read, parser, console, comment_file,
                 closed, passes, line_no, name_line, run, strip>>

\* one write_out_to_file call of write_history: the next version of the key
\* being iterated or, when that key is finished, the first version of a key
\* the HashMap iteration has not produced yet.  For a valid path the call
\* succeeds ("ok"), returns the error of create_dir_all or of the open
\* ("error"), or loses the lines ("lost"): they sit in the BufWriter until it
\* is dropped at the end of the call, and an error of the flush made by the
\* drop is discarded, so that the call returns Ok
WriteOutToFile ==
  /\ pc = "final"
  /\ \E key \in (IF cur_rest # {} THEN {cur_key} ELSE pending) :
       LET versions == IF cur_rest # {} THEN cur_rest
                       ELSE DOMAIN comment_history[key]
           num == NextVersion(versions)
           file_name == Trim(key)
           lines == comment_history[key][num]
           valid == is_valid_folder_path(comment_block_names,
                                         folder_prefixes, file_name)
       IN  /\ cur_key' = key
           /\ cur_rest' = versions \ {num}
           /\ pending' = pending \ {key}
           /\ IF valid # <<"ok">>
              THEN /\ error_string' = valid
                   /\ UNCHANGED <<fs, io_failed, written>>
              ELSE \E io \in {"ok", "error", "lost"} :
                     CASE io = "ok" ->
                          /\ fs_dirs' = fs_dirs \cup OutDirs(file_name)
                          /\ fs_files' = AppendFile(fs_files,
                                                    OutFile(file_name),
                                                    Rendered(lines))
                          /\ written' = written \cup {OutFile(file_name)}
                          /\ UNCHANGED <<error_string, io_failed>>
                       [] io = "error" ->
                          /\ error_string' = <<"io">>
                          /\ io_failed' = io_failed \cup {<<key, num>>}
                          /\ UNCHANGED <<fs, written>>
                       [] io = "lost" ->
                          /\ fs_dirs' = fs_dirs \cup OutDirs(file_name)
                          /\ fs_files' = AppendFile(fs_files,
                                                    OutFile(file_name), <<>>)
                          /\ io_failed' = io_failed \cup {<<key, num>>}
                          /\ UNCHANGED <<error_string, written>>
  /\ UNCHANGED <<pc, file_idx, lines_read, parser, console, comment_file,
                 closed, passes, line_no, name_line, run, strip>>

\* write_history, lines 219-223, and comment_in_files, lines 586-588
WriteHistoryEnd ==
  /\ pc = "final"
  /\ cur_rest = {}
  /\ pending = {}
  /\ pc' = "done"
  /\ console' = IF error_string # <<>> THEN console \cup {"write history"}
                ELSE console
  /\ UNCHANGED <<file_idx, lines_read, parser, fs, hist, ghost, strip>>

Next ==
  \/ RemoveDirAll
  \/ OpenFile
  \/ OpenFail
  \/ ReadCommentLine
  \/ ReadCodeLine
  \/ Eof
  \/ ReadError
  \/ WalkEnd
  \/ WriteOutToFile
  \/ WriteHistoryEnd

Spec == Init /\ [][Next]_vars

\* ------------------------------------------- sequence extraction on its own
\* the raw block names strip_number_in_str is applied to: every string over
\* StripAlphabet up to MaxNameLen, and bracketed numbers around the u16 limit
StripAlphabet == {"a", "[", "]", "0", "9"}
LimitDigits == {"0", "3", "5", "6", "9"}
StripPrefixes == {<<>>, <<"a">>, <<"a", " ">>}
StripNames ==
  SeqsUpTo(StripAlphabet, MaxNameLen)
  \cup {p \o <<"[">> \o ds \o <<"]">> :
          p \in StripPrefixes, ds \in SeqsUpTo(LimitDigits, MaxDigits)}

InitStrip ==
  /\ pc = "strip"
  /\ file_idx = 0
  /\ lines_read = 0
  /\ folder_prefixes = <<>>
  /\ current_state = "CODE"
  /\ comment_history = NoFunction
  /\ comment = <<>>
  /\ comment_block_names = {}
  /\ current_comment_name = <<>>
  /\ line_counter = 0
  /\ comment_line_start = 0
  /\ fs_files = NoFunction
  /\ fs_dirs = {}
  /\ console = {}
  /\ pending = {}
  /\ cur_key = <<>>
  /\ cur_rest = {}
  /\ error_string = <<>>
  /\ comment_file = 0
  /\ closed = <<>>
  /\ io_failed = {}
  /\ written = {}
  /\ passes = 0
  /\ line_no = 0
  /\ name_line = 0
  /\ run = <<>>
  /\ a_string \in StripNames
  /\ strip_out = <<>>
  /\ path_arg = <<>>
  /\ valid_out = <<>>

\* one call of strip_number_in_str(a_string)
StripCall ==
  /\ pc = "strip"
  /\ strip_out = <<>>
  /\ strip_out' = <<strip_number_in_str(a_string)>>
  /\ UNCHANGED <<pc, file_idx, lines_read, parser, fs, console, hist, ghost,
                 a_string, path_arg, valid_out>>

NextStrip == StripCall

SpecStrip == InitStrip /\ [][NextStrip]_vars

\* -------------------------------------------------- path validator on its own
\* the arguments is_valid_folder_path is applied to: the hierarchy argument
\* split on ".", every path over PathAlphabet up to MaxPathLen, and a
\* registered-name set that is empty, holds the path, or holds another name
MaxPathLen == 5
PathAlphabet == {"E", "I", "x", "."}
PrefixArgs == {<<>>, <<"E">>, <<"E", ".", "I">>}
OtherName == <<"x">>

InitValid ==
  /\ pc = "valid"
  /\ file_idx = 0
  /\ lines_read = 0
  /\ \E arg \in PrefixArgs : folder_prefixes = Split(arg, ".")
  /\ current_state = "CODE"
  /\ comment_history = NoFunction
  /\ comment = <<>>
  /\ path_arg \in SeqsUpTo(PathAlphabet, MaxPathLen)
  /\ comment_block_names \in {{}, {path_arg}, {OtherName}}
  /\ current_comment_name = <<>>
  /\ line_counter = 0
  /\ comment_line_start = 0
  /\ fs_files = NoFunction
  /\ fs_dirs = {}
  /\ console = {}
  /\ pending = {}
  /\ cur_key = <<>>
  /\ cur_rest = {}
  /\ error_string = <<>>
  /\ comment_file = 0
  /\ closed = <<>>
  /\ io_failed = {}
  /\ written = {}
  /\ passes = 0
  /\ line_no = 0
  /\ name_line = 0
  /\ run = <<>>
  /\ a_string = <<>>
  /\ strip_out = <<>>
  /\ valid_out = <<>>

\* one call of is_valid_folder_path(folder_prefixes, path_arg)
ValidCall ==
  /\ pc = "valid"
  /\ valid_out = <<>>
  /\ valid_out' = <<is_valid_folder_path(comment_block_names, folder_prefixes,
                                         path_arg)>>
  /\ UNCHANGED <<pc, file_idx, lines_read, parser, fs, console, hist, ghost,
                 a_string, strip_out, path_arg>>

NextValid == ValidCall

SpecValid == InitValid /\ [][NextValid]_vars

\* --------------------------------------------------- finalization on its own
\* the state write_history starts in after a walk over files that hold one
\* block each, closed at the end of the file: a metadata line drawn from
\* FinalNames and the body line FinalBody.  The names are two versions of a
\* path, a version of the same path written with a space before the suffix,
\* a path whose segment 1 lacks the prefix, and two paths with a segment 2
MaxStored == 3
FinalNames ==
  << <<"E", "[", "1", "]">>, <<"E", "[", "2", "]">>,
     <<"E", " ", "[", "1", "]">>, <<"X", "[", "1", "]">>,
     <<"E", ".", "E", "[", "1", "]">>, <<"E", ".", "X", "[", "1", "]">> >>
FinalBody == <<"b">>
FinalPrefixArgs == {<<"E">>, <<"E", ".", "E">>}

\* the file of the walk that holds the block named FinalNames[i], when the
\* blocks of S are the ones present
FileOf(S, i) == Cardinality({j \in S : j <= i})

\* what closing that block at the end of its file puts into the store
BlockOf(S, i) == <<Header(FileOf(S, i), 2), FinalBody>>

RECURSIVE StoreOf(_, _)
StoreOf(S, T) ==
  IF T = {} THEN NoFunction
  ELSE LET i == Max(T)
           comment_name == strip_number_in_str(FinalNames[i])
       IN  InsertVersion(StoreOf(S, T \ {i}),
                         DocRoot \o <<".">> \o comment_name.name,
                         comment_name.num, BlockOf(S, i))

\* the block closes of that walk, in file order
ClosedOf(S) ==
  [k \in 1..Cardinality(S) |->
     LET i == CHOOSE j \in S : FileOf(S, j) = k
     IN  [name |-> FinalNames[i], file |-> k, from |-> k, meta |-> 1,
          eof |-> TRUE,
          run |-> <<StartOfComment \o FinalNames[i],
                    StartOfComment \o FinalBody>>,
          lines |-> BlockOf(S, i), res |-> "ok"]]

InitFinal ==
  \E S \in SUBSET (1..Len(FinalNames)) :
    /\ Cardinality(S) \in 1..MaxStored
    /\ pc = "walk"
    /\ file_idx = Cardinality(S)
    /\ lines_read = 2 * Cardinality(S)
    /\ \E arg \in FinalPrefixArgs : folder_prefixes = Split(arg, ".")
    /\ current_state = "CODE"
    /\ comment_history = StoreOf(S, S)
    /\ comment = <<>>
    /\ comment_block_names = {FinalNames[i] : i \in S}
    /\ current_comment_name = FinalNames[Max(S)]
    /\ line_counter = 3
    /\ comment_line_start = 2
    /\ \E stale \in BOOLEAN :
         /\ fs_files = IF stale THEN StaleFiles ELSE NoFunction
         /\ fs_dirs = IF stale THEN StaleDirs ELSE {}
    /\ console = {}
    /\ pending = {}
    /\ cur_key = <<>>
    /\ cur_rest = {}
    /\ error_string = <<>>
    /\ comment_file = Cardinality(S)
    /\ closed = ClosedOf(S)
    /\ io_failed = {}
    /\ written = {}
    /\ passes = 0
    /\ line_no = 3
    /\ name_line = 1
    /\ run = <<>>
    /\ a_string = <<>>
    /\ strip_out = <<>>
    /\ path_arg = <<>>
    /\ valid_out = <<>>

NextFinal ==
  \/ WalkEnd
  \/ WriteOutToFile
  \/ WriteHistoryEnd

SpecFinal == InitFinal /\ [][NextFinal]_vars

\* ------------------------------------------------------------- a long file
\* the scan of the last file of the walk after it has read LongSkips leading
\* code lines: the files before it were empty, the document root was removed
LongSkips == {0, U16Max - 2, U16Max - 1}

InitLong ==
  /\ pc = "scan"
  /\ file_idx = MaxFiles
  /\ lines_read = 0
  /\ folder_prefixes = Split(FolderPrefixArg, ".")
  /\ current_state = "CODE"
  /\ comment_history = NoFunction
  /\ comment = <<>>
  /\ comment_block_names = {}
  /\ current_comment_name = <<>>
  /\ \E skipped \in LongSkips :
       /\ line_counter = 1 + skipped
       /\ line_no = 1 + skipped
  /\ comment_line_start = 0
  /\ fs_files = NoFunction
  /\ fs_dirs = {}
  /\ console = {}
  /\ pending = {}
  /\ cur_key = <<>>
  /\ cur_rest = {}
  /\ error_string = <<>>
  /\ comment_file = 0
  /\ closed = <<>>
  /\ io_failed = {}
  /\ written = {}
  /\ passes = 0
  /\ name_line = 0
  /\ run = <<>>
  /\ a_string = <<>>
  /\ strip_out = <<>>
  /\ path_arg = <<>>
  /\ valid_out = <<>>

\* a build with overflow checks (the debug profile): the u16 additions of
\* lines 323 and 506 panic at line_counter = 65535 and the process ends
OverflowPanic ==
  /\ pc = "scan"
  /\ lines_read < MaxLines
  /\ line_counter = U16Max
  /\ pc' = "panicked"
  /\ lines_read' = lines_read + 1
  /\ UNCHANGED <<file_idx, parser, fs, console, hist, ghost, strip>>

NextLong ==
  \/ ReadCommentLine
  \/ ReadCodeLine
  \/ Eof
  \/ ReadError
  \/ OverflowPanic
  \/ WalkEnd
  \/ WriteOutToFile
  \/ WriteHistoryEnd

SpecLong == InitLong /\ [][NextLong]_vars

\* ------------------------------------------------------------------ claims
\* the raw name a ends with "[", a run of k digits, "]"
EndsWithBracketed(a, k) ==
  /\ k >= 1
  /\ Len(a) >= k + 2
  /\ a[Len(a)] = "]"
  /\ a[Len(a) - k - 1] = "["
  /\ \A j \in (Len(a) - k)..(Len(a) - 1) : a[j] \in Digits

BracketedDigits(a, k) == SubSeq(a, Len(a) - k, Len(a) - 1)

\* C10, as stated: for every raw block name that ends with a bracketed run of
\* digits [n], extraction succeeds and returns n and the raw name with that
\* suffix, and nothing else, removed.
C10_AnyBracketedNumberExtracts ==
  strip_out # <<>> =>
    \A k \in 1..Len(a_string) :
      EndsWithBracketed(a_string, k) =>
        strip_out[1] = [ok |-> TRUE,
                        num |-> DecValue(BracketedDigits(a_string, k)),
                        name |-> SubSeq(a_string, 1, Len(a_string) - k - 2)]

\* C10, amended: for every raw block name that ends with a bracketed run of
\* digits [n] whose value n is at most 65535 (a u16), extraction succeeds and
\* returns n and the raw name with that suffix, and nothing else, removed.
C10_BracketedU16Extracts ==
  strip_out # <<>> =>
    \A k \in 1..Len(a_string) :
      (/\ EndsWithBracketed(a_string, k)
       /\ DecValue(BracketedDigits(a_string, k)) <= U16Max) =>
        strip_out[1] = [ok |-> TRUE,
                        num |-> DecValue(BracketedDigits(a_string, k)),
                        name |-> SubSeq(a_string, 1, Len(a_string) - k - 2)]

\* a name with leading zeros and a space before the suffix was extracted
C10_Witness ==
  /\ strip_out # <<>>
  /\ a_string = <<"a", " ", "[", "0", "0", "9", "]">>
  /\ strip_out[1] = [ok |-> TRUE, num |-> 9, name |-> <<"a", " ">>]

\* the chunk is in the file content at position i
ChunkAt(content, i, chunk) ==
  /\ i + Len(chunk) - 1 <= Len(content)
  /\ SubSeq(content, i, i + Len(chunk) - 1) = chunk

Appears(content, chunk) == \E i \in 1..Len(content) : ChunkAt(content, i, chunk)

\* the two versions a < b of the key are in the key's output file, a first
InOrderInFile(key, a, b) ==
  LET f == OutFile(Trim(key)) IN
  /\ f \in DOMAIN fs_files
  /\ \E i, j \in 1..Len(fs_files[f]) :
       /\ i < j
       /\ ChunkAt(fs_files[f], i, Rendered(comment_history[key][a]))
       /\ ChunkAt(fs_files[f], j, Rendered(comment_history[key][b]))

\* C1, as stated: after a run, any two blocks stored under the same clean
\* logical path with different sequence numbers are both in that path's
\* output file, the one with the smaller sequence number first (stated for
\* the runs in which no write hits an I/O error).
C1_StoredVersionsWrittenAscending ==
  (pc = "done" /\ io_failed = {}) =>
    \A key \in DOMAIN comment_history :
      \A a, b \in DOMAIN comment_history[key] :
        a < b => InOrderInFile(key, a, b)

\* the store key passes the path validator and no write of the two versions
\* hit an I/O error
WritableVersions(key, a, b) ==
  /\ is_valid_folder_path(comment_block_names, folder_prefixes, Trim(key))
       = <<"ok">>
  /\ <<key, a>> \notin io_failed
  /\ <<key, b>> \notin io_failed

\* C1, amended: after a run, any two blocks stored under the same clean
\* logical path with different sequence numbers, whose path passes the path
\* validator and whose writes do not fail, are both in that path's output
\* file, the one with the smaller sequence number first, whatever order the
\* files were traversed in and the blocks were closed in.
C1_ValidVersionsWrittenAscending ==
  pc = "done" =>
    \A key \in DOMAIN comment_history :
      \A a, b \in DOMAIN comment_history[key] :
        (a < b /\ WritableVersions(key, a, b)) => InOrderInFile(key, a, b)

\* two versions of one path, the larger closed first and in an earlier file,
\* were written
C1_Witness ==
  /\ pc = "done"
  /\ \E key \in DOMAIN comment_history :
       \E a, b \in DOMAIN comment_history[key] :
         /\ a < b
         /\ WritableVersions(key, a, b)
         /\ InOrderInFile(key, a, b)
         /\ \E m, n \in 1..Len(closed) :
              /\ m < n
              /\ closed[m].lines = comment_history[key][b]
              /\ closed[n].lines = comment_history[key][a]
              /\ closed[m].file < closed[n].file

\* the n-th block closed has the clean path and sequence number of a block
\* that an earlier close put into the store
RepeatsStoredVersion(n) ==
  \E m \in 1..(n - 1) :
    /\ closed[m].res # "missing"
    /\ strip_number_in_str(closed[m].name).ok
    /\ strip_number_in_str(closed[n].name).ok
    /\ strip_number_in_str(closed[m].name).num
         = strip_number_in_str(closed[n].name).num
    /\ strip_number_in_str(closed[m].name).name
         = strip_number_in_str(closed[n].name).name

\* C2: when a block is closed whose clean path and sequence number equal
\* those of a block already in the store, a duplicate-sequence error is
\* raised and the finalization pass of that run writes no output file.
C2_DuplicateSequenceAbortsWriteOut ==
  \A n \in 1..Len(closed) :
    RepeatsStoredVersion(n) =>
      /\ "dup" \in console
      /\ written = {}

\* C3: of two blocks closed with an identical raw name, the second one closed
\* is in no output file.
C3_SecondOfSameRawNameNotWritten ==
  \A m, n \in 1..Len(closed) :
    (m < n /\ closed[m].name = closed[n].name) =>
      \A f \in DOMAIN fs_files :
        ~Appears(fs_files[f], Rendered(closed[n].lines))

\* every block of the store is in the store, unchanged, after the step
StoredBlocksStay ==
  \A key \in DOMAIN comment_history :
    \A num \in DOMAIN comment_history[key] :
      /\ key \in DOMAIN comment_history'
      /\ num \in DOMAIN comment_history'[key]
      /\ comment_history'[key][num] = comment_history[key][num]

\* C4: the lines stored under a (logical path, sequence number) pair are
\* never changed or replaced by a later step of the run, whether a later
\* block close succeeds or fails.
C4_StoredLinesNeverReplaced == [][StoredBlocksStay]_vars

\* a code line closed a block and the close found no sequence suffix
ClosedWithoutSuffixByCodeLine ==
  /\ lines_read' = lines_read + 1
  /\ Len(closed') = Len(closed) + 1
  /\ closed'[Len(closed')].res = "missing"

\* C5: when a closed block's raw name has no sequence suffix only that block
\* is discarded and the scan of the same file continues with its next line.
C5_MissingSuffixKeepsScanning ==
  [][ClosedWithoutSuffixByCodeLine =>
       (pc' = "scan" /\ file_idx' = file_idx)]_vars

\* the scan of a file fails in this step: the file cannot be opened, a line
\* cannot be read, or a block close returns an error
ScanFails ==
  \/ OpenFail
  \/ ReadError
  \/ (Len(closed') = Len(closed) + 1 /\ closed'[Len(closed')].res # "ok")

\* C6: when the scan of a file fails, the blocks already stored stay in the
\* store and the walk goes on to its remaining files and to the finalization
\* pass.
C6_ScanFailureKeepsStoreAndWalk ==
  [][ScanFails => (StoredBlocksStay /\ pc' = "walk")]_vars

\* C7: every file's scan starts in CODE with an empty body accumulator and
\* line counter 1, and no block is attributed to a file other than the one
\* its name was read in.
C7_FileScanStartsClean ==
  /\ [][(pc = "walk" /\ pc' = "scan") =>
          (current_state' = "CODE" /\ comment' = <<>> /\ line_counter' = 1)]_vars
  /\ [](\A n \in 1..Len(closed) : closed[n].from = closed[n].file)

\* the step creates an output directory or file, or appends to a file
CreatesOutput ==
  \/ \E p \in DOMAIN fs_files' :
       p \notin DOMAIN fs_files \/ fs_files'[p] # fs_files[p]
  \/ ~(fs_dirs' \subseteq fs_dirs)

\* C8: the Writer runs in exactly one finalization pass, which starts after
\* the last file of the walk was scanned: output is created only in that
\* pass, no file is scanned and no block stored once it has started, and a
\* finished run has made exactly one pass.
C8_SingleFinalizationAfterWalk ==
  [][/\ CreatesOutput => (pc = "final" /\ passes = 1)
     /\ pc \in {"final", "done"} =>
          /\ pc' \in {"final", "done"}
          /\ file_idx' = file_idx
          /\ lines_read' = lines_read
          /\ comment_history' = comment_history
     /\ passes' <= 1
     /\ pc' = "done" => passes' = 1]_vars

\* a run over two files, one of which failed, has written its output
C8_Witness ==
  /\ pc = "done"
  /\ passes = 1
  /\ file_idx = 2
  /\ console # {}
  /\ written # {}

\* C9: the previously generated document root is deleted before the first
\* output write: once the run has written output, no line of an earlier run
\* is in a file under the document root.
C9_EarlierOutputDeleted ==
  written # {} =>
    \A f \in DOMAIN fs_files :
      UnderRoot(f, DocRoot) =>
        \A i \in 1..Len(fs_files[f]) : fs_files[f][i] # StaleLine

\* C11: sequence extraction fails for every raw block name that does not end
\* with "[", one or more digits, "]" at the very end of the string.
C11_NoTrailingBracketedDigitsFails ==
  (strip_out # <<>> /\ \A k \in 1..Len(a_string) :
                         ~EndsWithBracketed(a_string, k)) =>
    ~strip_out[1].ok

\* extraction failed on a name ending in empty brackets, in brackets that
\* hold a letter, or in a bracketed number followed by a further character
C11_Witness ==
  /\ strip_out # <<>>
  /\ a_string \in {<<"a", "[", "]">>, <<"a", "[", "a", "]">>,
                    <<"a", "[", "9", "]", "a">>}
  /\ ~strip_out[1].ok

\* the segments of the path given to the validator
Segments == Split(path_arg, ".")

TooDeep == Len(Segments) > Len(folder_prefixes) + 1

DuplicateName == path_arg \in comment_block_names

\* segment k (counted from 0) does not start with the prefix declared for it
Mismatch(k) == ~StartsWith(Segments[k + 1], folder_prefixes[k])

Verdict(key) ==
  is_valid_folder_path(comment_block_names, folder_prefixes, Trim(key))

\* the step is a write_out_to_file call for a key the validator rejects
RejectedWrite ==
  /\ pc = "final"
  /\ pc' = "final"
  /\ (cur_rest' # cur_rest \/ pending' # pending)
  /\ Verdict(cur_key') # <<"ok">>

\* C13: for every logical path the validator rejects (too many segments or
\* a prefix mismatch) the write creates no directory and creates or appends
\* to no file, and the run writes no output file for that path.
C13_RejectedPathLeavesNoOutput ==
  /\ [][RejectedWrite => (fs_dirs' = fs_dirs /\ fs_files' = fs_files)]_vars
  /\ [](\A key \in DOMAIN comment_history :
          Verdict(key) # <<"ok">> => OutFile(Trim(key)) \notin written)

\* a finished pass that rejected a path as too deep and one for its prefix,
\* wrote another path, and left no file for the rejected ones
C13_Witness ==
  /\ pc = "done"
  /\ written # {}
  /\ \E k1, k2 \in DOMAIN comment_history :
       /\ Verdict(k1) = <<"Path is longer than what is allowed.">>
       /\ Verdict(k2)[1] = "Invalid folder prefix"
       /\ OutFile(Trim(k1)) \notin DOMAIN fs_files
       /\ OutFile(Trim(k2)) \notin DOMAIN fs_files

\* the n-th block closed is the one the store holds under its path and number
StillStored(n) ==
  LET comment_name == strip_number_in_str(closed[n].name)
      key == DocRoot \o <<".">> \o comment_name.name
  IN  /\ comment_name.ok
      /\ HasVersion(comment_history, key, comment_name.num)
      /\ comment_history[key][comment_name.num] = closed[n].lines

\* the n-th block closed is in the output file of its path
InOutput(n) ==
  LET key == DocRoot \o <<".">> \o strip_number_in_str(closed[n].name).name
      f == OutFile(Trim(key))
  IN  f \in DOMAIN fs_files /\ Appears(fs_files[f], Rendered(closed[n].lines))

\* the store key of the n-th block closed passes the validator and the write
\* of its version did not fail
Writable(n) ==
  LET comment_name == strip_number_in_str(closed[n].name)
      key == DocRoot \o <<".">> \o comment_name.name
  IN  Verdict(key) = <<"ok">> /\ <<key, comment_name.num>> \notin io_failed

\* C14: a block still open when its file ends is closed at end-of-file: the
\* parser is left in CODE with an empty accumulator, the store and the
\* registered names become what the close on a code line makes them, a
\* well-formed new block being stored with its header and body; after the
\* run the block, given a valid path, is in the output file of its path as a
\* block closed by a code line is.
C14_OpenBlockClosedAtEof ==
  /\ [][(Eof /\ current_state = "COMMENT") =>
          /\ current_state' = "CODE"
          /\ comment' = <<>>
          /\ comment_history' = write_out_all_history(file_idx).history
          /\ comment_block_names' = write_out_all_history(file_idx).names
          /\ (comment # <<>> /\ strip_number_in_str(current_comment_name).ok) =>
               LET comment_name == strip_number_in_str(current_comment_name)
                   key == DocRoot \o <<".">> \o comment_name.name
               IN  /\ HasVersion(comment_history', key, comment_name.num)
                   /\ comment_history'[key][comment_name.num]
                        = <<Header(file_idx, comment_line_start)>> \o comment]_vars
  /\ [](pc = "done" =>
          \A n \in 1..Len(closed) :
            (closed[n].eof /\ StillStored(n) /\ Writable(n)) => InOutput(n))

\* a block closed by the end of its file is in the output of a finished run
C14_Witness ==
  /\ pc = "done"
  /\ \E n \in 1..Len(closed) :
       closed[n].eof /\ closed[n].res = "ok" /\ InOutput(n)

\* the header text of a stored block: its first line without the newline
\* the format string ends with
HeaderText(lines) == SubSeq(lines[1], 1, Len(lines[1]) - 1)

\* a block as C15 states it: header line, body lines, one blank line
ChunkAsStated(lines) == <<HeaderText(lines)>> \o Tail(lines) \o << <<>> >>

\* a block as it is written: header line, empty line, body lines, blank line
ChunkAsWritten(lines) ==
  <<HeaderText(lines), <<>>>> \o Tail(lines) \o << <<>> >>

\* the blocks of the versions of a key, in ascending order, as C15 states them
RECURSIVE FileAsStated(_, _)
FileAsStated(key, versions) ==
  IF versions = {} THEN <<>>
  ELSE ChunkAsStated(comment_history[key][Min(versions)])
       \o FileAsStated(key, versions \ {Min(versions)})

NoStaleLine ==
  \A f \in DOMAIN fs_files :
    \A i \in 1..Len(fs_files[f]) : fs_files[f][i] # StaleLine

\* C15, as stated: each output file consists, for each stored version of its
\* path in ascending order, of one header line, immediately followed by the
\* body lines, followed by one blank line (stated for the runs that found no
\* earlier output and in which no write failed).
C15_FileIsHeaderBodyBlank ==
  (pc = "done" /\ io_failed = {} /\ NoStaleLine) =>
    \A key \in DOMAIN comment_history :
      Verdict(key) = <<"ok">> =>
        /\ OutFile(Trim(key)) \in DOMAIN fs_files
        /\ fs_files[OutFile(Trim(key))]
             = FileAsStated(key, DOMAIN comment_history[key])

\* the step is a write_out_to_file call that changed a file and lost nothing
WritesFile == pc = "final" /\ fs_files' # fs_files /\ io_failed' = io_failed

\* C15, amended: every write of a stored version that hits no I/O error
\* appends to the output file of its path exactly the stored header line,
\* one empty line, the body lines in order and one blank line, changes no
\* other file, and the versions of a key not yet written are larger than the
\* one written.
C15_WriteAppendsHeaderEmptyBodyBlank ==
  [][WritesFile =>
       LET key == cur_key'
           num == Max(DOMAIN comment_history[key] \ cur_rest')
           f == OutFile(Trim(key))
           before == IF f \in DOMAIN fs_files THEN fs_files[f] ELSE <<>>
       IN  /\ DOMAIN fs_files' = DOMAIN fs_files \cup {f}
           /\ fs_files'[f]
                = before \o ChunkAsWritten(comment_history[key][num])
           /\ \A g \in DOMAIN fs_files : g # f => fs_files'[g] = fs_files[g]
           /\ \A v \in cur_rest' : v > num]_vars

\* the example run: one file whose line 1 is the metadata line of E[1], line
\* 2 a body line and line 3 a code line; the output file holds the header
\* referencing file 1 and line 2, an empty line, the body line, a blank line
C15_Witness ==
  /\ pc = "done"
  /\ file_idx = 1
  /\ lines_read = 3
  /\ Len(closed) = 1
  /\ closed[1].run = <<LineE1, LineE2>>
  /\ ~closed[1].eof
  /\ fs_files = [f \in {<<"d", "/", "E", ".", "m", "d">>} |->
                   << <<"[SOURCE FILE:](file:///", 1, ") LINE: ", 2>>, <<>>,
                      <<"E", "[", "2", "]">>, <<>> >>]

\* the files after a pass has written the versions of the key, ascending
RECURSIVE WriteKey(_, _, _)
WriteKey(files, key, versions) ==
  IF versions = {} \/ Verdict(key) # <<"ok">> THEN files
  ELSE WriteKey(AppendFile(files, OutFile(Trim(key)),
                           Rendered(comment_history[key][Min(versions)])),
                key, versions \ {Min(versions)})

\* the files after a pass that iterates the keys of the store in this order
RECURSIVE WriteInOrder(_, _)
WriteInOrder(files, order) ==
  IF order = <<>> THEN files
  ELSE WriteInOrder(WriteKey(files, Head(order),
                             DOMAIN comment_history[Head(order)]),
                    Tail(order))

\* the orders in which the path map of the store can be iterated
KeyOrders ==
  LET keys == DOMAIN comment_history IN
  {o \in [1..Cardinality(keys) -> keys] :
     \A i, j \in 1..Cardinality(keys) : i # j => o[i] # o[j]}

\* the files the pass started with
FilesBeforePass == IF NoStaleLine THEN NoFunction ELSE StaleFiles

\* C16: the output of a run does not depend on the iteration order of the
\* path map of the store: a finished pass in which no write failed has
\* produced the files that every iteration order of the same store produces.
C16_OutputIndependentOfKeyOrder ==
  (pc = "done" /\ io_failed = {}) =>
    \A o \in KeyOrders : fs_files = WriteInOrder(FilesBeforePass, o)

\* the version of the key is in the output file of the key
VersionInOutput(key, num) ==
  /\ OutFile(Trim(key)) \in DOMAIN fs_files
  /\ Appears(fs_files[OutFile(Trim(key))], Rendered(comment_history[key][num]))

\* a write_out_to_file call of the pass returned an error
PassHadError ==
  \/ \E key \in DOMAIN comment_history : Verdict(key) # <<"ok">>
  \/ io_failed # {}

\* C17: a stored path that fails validation, or a write that fails, does not
\* stop the finalization pass: when it has ended, every version of every
\* stored path that validates, other than those whose own write failed, is in
\* its output file, and the pass has reported an error.
C17_PassContinuesAfterError ==
  pc = "done" =>
    /\ \A key \in DOMAIN comment_history :
         Verdict(key) = <<"ok">> =>
           \A num \in DOMAIN comment_history[key] :
             <<key, num>> \notin io_failed => VersionInOutput(key, num)
    /\ PassHadError => "write history" \in console

\* the step reads a comment line while the parser is in CODE
ReadsMetadataLine ==
  /\ pc = "scan"
  /\ current_state = "CODE"
  /\ run' # run
  /\ run' # <<>>

\* the raw name on a metadata line: marker stripped, whitespace trimmed
RawName(line) ==
  Trim(SubSeq(Trim(line), Len(StartOfComment) + 1, Len(Trim(line))))

\* C18: a comment line read in CODE mode moves the parser to COMMENT, its
\* text (marker stripped, whitespace trimmed) becomes the raw block name and
\* is not added to the body, the start line recorded is the 1-based number
\* of that line plus one, and that number is the one in the block's header.
C18_MetadataLineOpensBlock ==
  /\ [][ReadsMetadataLine =>
          /\ current_state' = "COMMENT"
          /\ current_comment_name' = RawName(run'[Len(run')])
          /\ comment' = <<>>
          /\ comment_line_start' = line_no + 1]_vars
  /\ [](\A n \in 1..Len(closed) :
          closed[n].lines[1][4] = closed[n].meta + 1)

\* a comment line with the marker removed
StripMarker(line) ==
  SubSeq(Trim(line), Len(StartOfComment) + 1, Len(Trim(line)))

\* the comment lines that follow the first one of the run, marker removed
BodyOfRun(lines) == [i \in 1..(Len(lines) - 1) |-> StripMarker(lines[i + 1])]

\* C19: the body stored for a block is exactly the contiguous run of comment
\* lines that follows its metadata line in its file, each with the marker
\* removed, in file order.
C19_BodyIsCommentRun ==
  \A n \in 1..Len(closed) :
    closed[n].res # "missing" =>
      Tail(closed[n].lines) = BodyOfRun(closed[n].run)

\* the step processes a line of the file being scanned
ProcessesLine == pc = "scan" /\ lines_read' = lines_read + 1 /\ pc' # "panicked"

\* C20: after any non-comment line has been processed the mode is CODE and
\* the body accumulator is empty, whether the close it performed succeeded,
\* found an empty body or returned an error; after any comment line has been
\* processed the mode is COMMENT.
C20_ModeAfterEachLine ==
  [][ProcessesLine =>
       IF run' = <<>>
       THEN current_state' = "CODE" /\ comment' = <<>>
       ELSE current_state' = "COMMENT"]_vars

\* a code line has closed a block with an error and left the parser in CODE
\* with an empty accumulator
C20_Witness ==
  /\ pc = "walk"
  /\ Len(closed) >= 1
  /\ ~closed[Len(closed)].eof
  /\ closed[Len(closed)].res \in {"missing", "dup"}
  /\ line_no > closed[Len(closed)].meta + 1
  /\ run = <<>>
  /\ current_state = "CODE"
  /\ comment = <<>>

\* the first k segments as a filesystem path: each one nested in the one
\* before it
RECURSIVE NestedPath(_, _)
NestedPath(segments, k) ==
  IF k = 1 THEN segments[1]
  ELSE NestedPath(segments, k - 1) \o <<"/">> \o segments[k]

\* content is the start of longer
IsPrefix(content, longer) ==
  Len(content) <= Len(longer) /\ SubSeq(longer, 1, Len(content)) = content

BlockErrorStep ==
  /\ Len(closed') = Len(closed) + 1
  /\ closed'[Len(closed')].res # "ok"

ClosesEmptyBlock ==
  /\ pc = "scan"
  /\ current_state = "COMMENT"
  /\ comment = <<>>
  /\ current_state' = "CODE"

\* C23: a block that is a metadata line with no body line is dropped when it
\* closes: the store, the registered names and the output stay as they are
\* and no error is raised, whatever its name is; the scan goes on with the
\* next line, or the walk with the next file; no stored block is without a
\* body line.
C23_EmptyBlockDropped ==
  /\ [][ClosesEmptyBlock =>
          /\ comment_history' = comment_history
          /\ comment_block_names' = comment_block_names
          /\ console' = console
          /\ closed' = closed
          /\ fs_files' = fs_files
          /\ fs_dirs' = fs_dirs
          /\ pc' = IF lines_read' = lines_read THEN "walk" ELSE "scan"]_vars
  /\ [](\A key \in DOMAIN comment_history :
          \A num \in DOMAIN comment_history[key] :
            Len(comment_history[key][num]) >= 2)

\* a code line right after a metadata line has closed a block whose path and
\* number are in the store already: no error, and the scan goes on
C23_Witness ==
  /\ pc = "scan"
  /\ current_state = "CODE"
  /\ line_no = name_line + 2
  /\ comment_file = file_idx
  /\ console = {}
  /\ strip_number_in_str(current_comment_name).ok
  /\ HasVersion(comment_history,
                DocRoot \o <<".">>
                  \o strip_number_in_str(current_comment_name).name,
                strip_number_in_str(current_comment_name).num)
  /\ \A n \in 1..Len(closed) : closed[n].file < file_idx

\* the keys of the store of which write_history has appended a version to
\* the output
WrittenKeys ==
  {key \in DOMAIN comment_history \ pending :
     /\ Verdict(key) = <<"ok">>
     /\ \E num \in DOMAIN comment_history[key] :
          /\ cur_key = key => num \notin cur_rest
          /\ <<key, num>> \notin io_failed}

\* C24: two distinct keys of the store are never written to the same output
\* file, so the blocks of one output file all come from one store entry and
\* are covered by its duplicate test and its ascending order.
C24_OneKeyPerOutputFile ==
  pc \in {"final", "done"} =>
    \A k1, k2 \in WrittenKeys :
      k1 # k2 => OutFile(Trim(k1)) # OutFile(Trim(k2))

\* C25: while a file is scanned the line counter is the 1-based number of
\* the line being processed, the start line recorded for the open block is
\* the number of its metadata line plus one, and the 16-bit counter does not
\* overflow, also in files of 65535 or more lines.
C25_LineCounterIsLineNumber ==
  /\ pc = "scan" => line_counter = line_no
  /\ (current_state = "COMMENT" /\ comment_file = file_idx) =>
       comment_line_start = name_line + 1
  /\ pc # "panicked"

\* a run of digits without its leading zeros (one digit is kept)
RECURSIVE StripZeros(_)
StripZeros(ds) ==
  IF Len(ds) > 1 /\ ds[1] = "0" THEN StripZeros(Tail(ds)) ELSE ds

\* C26: for a raw name that ends with a bracketed run of digits, extraction
\* never returns a number other than the decimal value of the digits: a value
\* above 65535 fails with the missing-sequence error, a number returned is
\* the value and fits 16 bits, and the result is the one for the same digits
\* without their leading zeros.
C26_NumberIsDecimalValue ==
  strip_out # <<>> =>
    \A k \in 1..Len(a_string) :
      EndsWithBracketed(a_string, k) =>
        LET ds == BracketedDigits(a_string, k)
            head == SubSeq(a_string, 1, Len(a_string) - k - 1)
            plain == strip_number_in_str(head \o StripZeros(ds) \o <<"]">>)
        IN  /\ DecValue(ds) > U16Max => ~strip_out[1].ok
            /\ strip_out[1].ok =>
                 /\ strip_out[1].num = DecValue(ds)
                 /\ strip_out[1].num \in 0..U16Max
            /\ strip_out[1].ok = plain.ok
            /\ strip_out[1].num = plain.num

\* extraction was applied to a name whose bracketed number is 65536 and
\* failed
C26_Witness ==
  /\ strip_out # <<>>
  /\ a_string = <<"a", "[", "6", "5", "5", "3", "6", "]">>
  /\ ~strip_out[1].ok

====
